---------------------------- MODULE Spec2Model ----------------------------
(***************************************************************************)
(* sso-proxy configuration: defaults, environment overrides, validation.   *)
(* Source: internal/proxy/configuration.go.                                *)
(*                                                                         *)
(* Representation.  A Go string that the code inspects character by        *)
(* character (URLs, secrets, cookie names, environment values) is a tuple  *)
(* of one-character strings; "" is << >>.  Error messages are TLA+ strings *)
(* built by concatenation, as fmt builds them.  A name that is matched as  *)
(* a whole (an environment key segment, a mapstructure tag, a Go field     *)
(* name) is a TLA+ string; an environment key is the tuple of the segments *)
(* that its underscores separate.  A time.Duration is a count of           *)
(* nanoseconds kept as [s, ns] (seconds, remaining nanoseconds) because    *)
(* 720h in nanoseconds does not fit the checker's integers.                *)
(***************************************************************************)
EXTENDS Integers, Sequences, FiniteSets, TLC

VARIABLES env, cfg, loadErr, err, target, before, pc, edits

vars == <<env, cfg, loadErr, err, target, before, pc, edits>>

-----------------------------------------------------------------------------
(* Strings and errors *)

RECURSIVE Str(_)
\* The Go string a tuple of characters stands for.
Str(s) == IF s = <<>> THEN "" ELSE Head(s) \o Str(Tail(s))

\* fmt's %q of a string over the model's alphabets (nothing needs escaping).
Quote(s) == "\"" \o Str(s) \o "\""

\* A Go error value: nil, or an error with its Error() text (msg) and that
\* text as %q escapes it, without the enclosing quotes (esc).
NoError == [isNil |-> TRUE, msg |-> "", esc |-> ""]
NewError(m) == [isNil |-> FALSE, msg |-> m, esc |-> m]
NewErrorEsc(m, e) == [isNil |-> FALSE, msg |-> m, esc |-> e]

\* fmt's %q of an error.
QuoteError(e) == "\"" \o e.esc \o "\""

\* xerrors.Errorf(prefix + "%w", e): the text is the prefix followed by e's.
Wrap(prefix, e) == NewErrorEsc(prefix \o e.msg, prefix \o e.esc)

\* The base64 alphabet of RFC 4648 (StdEncoding), in index order.
Base64Alphabet ==
    <<"A", "B", "C", "D", "E", "F", "G", "H", "I", "J", "K", "L",
      "M", "N", "O", "P", "Q", "R", "S", "T", "U", "V", "W", "X",
      "Y", "Z", "a", "b", "c", "d", "e", "f", "g", "h", "i", "j",
      "k", "l", "m", "n", "o", "p", "q", "r", "s", "t", "u", "v",
      "w", "x", "y", "z", "0", "1", "2", "3", "4", "5", "6", "7",
      "8", "9", "+", "/">>

LETTERS == {Base64Alphabet[i] : i \in 1..52}
DIGITS == {Base64Alphabet[i] : i \in 53..62}

DigitVal(c) ==
    CASE c = "0" -> 0 [] c = "1" -> 1 [] c = "2" -> 2 [] c = "3" -> 3
      [] c = "4" -> 4 [] c = "5" -> 5 [] c = "6" -> 6 [] c = "7" -> 7
      [] c = "8" -> 8 [] c = "9" -> 9

\* strings.Index(s, c) for a one-character c, 1-based; 0 when absent.
IndexOf(s, c) ==
    IF \E i \in 1..Len(s) : s[i] = c
    THEN CHOOSE i \in 1..Len(s) : s[i] = c /\ \A j \in 1..(i - 1) : s[j] # c
    ELSE 0

\* strings.LastIndex(s, c), 1-based; 0 when absent.
LastIndexOf(s, c) ==
    IF \E i \in 1..Len(s) : s[i] = c
    THEN CHOOSE i \in 1..Len(s) : s[i] = c /\ \A j \in (i + 1)..Len(s) : s[j] # c
    ELSE 0

HasPrefix2(s, c) == Len(s) >= 2 /\ s[1] = c /\ s[2] = c

-----------------------------------------------------------------------------
(* Text values, and the cookie secrets and provider URLs the callers supply. *)

\* Go text written out as a tuple of characters.
S_sso == <<"s", "s", "o">>
S_google == <<"g", "o", "o", "g", "l", "e">>
S_sso_proxy == <<"_", "s", "s", "o", "_", "p", "r", "o", "x", "y">>
S_https == <<"h", "t", "t", "p", "s">>
S_INFO == <<"I", "N", "F", "O">>
S_localhost == <<"l", "o", "c", "a", "l", "h", "o", "s", "t">>
S_test == <<"t", "e", "s", "t">>
S_external == <<"h", "t", "t", "p", "s", ":", "/", "/", "s", "s", "o", "-", "e", "x",
                "t", "e", "r", "n", "a", "l", ".", "c", "o", "m">>
S_internal == <<"h", "t", "t", "p", "s", ":", "/", "/", "s", "s", "o", "-", "i", "n",
                "t", "e", "r", "n", "a", "l", ".", "c", "o", "m">>
S_foo_id == <<"f", "o", "o", "-", "i", "d">>
S_bar_secret == <<"b", "a", "r", "-", "s", "e", "c", "r", "e", "t">>
S_foo_cluster == <<"f", "o", "o", "-", "c", "l", "u", "s", "t", "e", "r">>
S_foo == <<"f", "o", "o">>
S_foo_slug == <<"f", "o", "o", "-", "s", "l", "u", "g">>
S_foo_cookie_name == <<"f", "o", "o", "_", "c", "o", "o", "k", "i", "e", "_", "n", "a", "m",
                       "e">>
S_60s == <<"6", "0", "s">>
S_1h30m == <<"1", "h", "3", "0", "m">>
S_bogus == <<"b", "o", "g", "u", "s">>
S_99 == <<"9", "9">>
S_15 == <<"1", "5">>
S_false == <<"f", "a", "l", "s", "e">>
S_a_b == <<"a", ",", "b">>

\* The cookie secret of TestConfigValidate: 44 characters, 32 bytes.
S_test_secret ==
    <<"S", "M", "o", "P", "f", "i", "n", "x", "N", "z", "0", "f", "u", "a",
      "G", "F", "P", "U", "r", "5", "v", "w", "Q", "p", "v", "o", "G", "+",
      "C", "G", "c", "L", "d", "2", "n", "k", "x", "R", "V", "I", "+", "H",
      "4", "=">>

RECURSIVE Quanta(_)
\* q quanta "AAAA" of base64 text: 3q zero bytes.
Quanta(q) == IF q = 0 THEN <<>> ELSE <<"A", "A", "A", "A">> \o Quanta(q - 1)

\* Cookie secrets, each with what it is by construction: "empty", "corrupt"
\* at a 0-based offset n, or "bytes" decoding to n bytes.
SecretInputs ==
    {[secret |-> <<>>, class |-> "empty", n |-> 0],
     [secret |-> <<"!">>, class |-> "corrupt", n |-> 0],
     [secret |-> <<"A">>, class |-> "corrupt", n |-> 0],
     [secret |-> S_foo, class |-> "corrupt", n |-> 0],
     [secret |-> <<"A", "A", "=", "A">>, class |-> "corrupt", n |-> 2],
     [secret |-> Quanta(10) \o <<"A", "A", "=">>, class |-> "corrupt", n |-> 43],
     [secret |-> Quanta(10) \o <<"A", "A", "A", "=", "A">>, class |-> "corrupt", n |-> 44],
     [secret |-> Quanta(5) \o <<"A", "A", "=", "=">>, class |-> "bytes", n |-> 16],
     [secret |-> Quanta(10) \o <<"A", "A", "=", "=">>, class |-> "bytes", n |-> 31],
     [secret |-> Quanta(10) \o <<"A", "A", "A", "=">>, class |-> "bytes", n |-> 32],
     [secret |-> Quanta(10) \o <<"A", "A", "A", "=", "\n">>, class |-> "bytes", n |-> 32],
     [secret |-> S_test_secret, class |-> "bytes", n |-> 32],
     [secret |-> Quanta(11), class |-> "bytes", n |-> 33],
     [secret |-> Quanta(21), class |-> "bytes", n |-> 63],
     [secret |-> Quanta(21) \o <<"A", "A", "=", "=">>, class |-> "bytes", n |-> 64],
     [secret |-> Quanta(21) \o <<"A", "A", "A", "=">>, class |-> "bytes", n |-> 65]}

\* Provider URLs, each with what it is by construction: "empty", "good"
\* (parseable, with scheme and host), "partial" (parseable, lacking one of
\* them) or "unparseable".
UrlInputs ==
    {[url |-> <<>>, class |-> "empty"],
     [url |-> S_external, class |-> "good"],
     [url |-> S_internal, class |-> "good"],
     [url |-> <<"h", "t", "t", "p", ":", "/", "/", "h", ":", "8", "0", "/", "p">>, class |-> "good"],
     [url |-> <<"n", "o", "t", "-", "a", "-", "u", "r", "l">>, class |-> "partial"],
     [url |-> <<"/", "/", "h">>, class |-> "partial"],
     [url |-> <<"h", "t", "t", "p", "s", ":", "h">>, class |-> "partial"],
     [url |-> <<"h", "t", "t", "p", "s", ":", "/", "/", "/", "h">>, class |-> "partial"],
     [url |-> S_foo, class |-> "partial"],
     [url |-> <<":", "h">>, class |-> "unparseable"],
     [url |-> <<"1", "h", ":", "/", "/", "x">>, class |-> "unparseable"],
     [url |-> <<"h", ":", "/", "/", "h", " ", "x">>, class |-> "unparseable"],
     [url |-> <<"h", ":", "/", "/", "h", ":", "x">>, class |-> "unparseable"]}

-----------------------------------------------------------------------------
(* encoding/base64: StdEncoding.DecodeString, called at line 252 *)

\* StdEncoding's decode map: each character of the alphabet with its index.
DecodeMap ==
    [c \in {Base64Alphabet[i] : i \in 1..Len(Base64Alphabet)} |->
        (CHOOSE i \in 1..Len(Base64Alphabet) : Base64Alphabet[i] = c) - 1]

\* The decode map's entry for a character; 255 (0xff) marks a character
\* outside the alphabet.
Base64Chars == DOMAIN DecodeMap

Base64Index(c) == IF c \in Base64Chars THEN DecodeMap[c] ELSE 255

IsNewline(c) == c = "\n" \/ c = "\r"

RECURSIVE SkipNewlines(_, _)
\* The first index >= si (1-based) of src that is no newline, or Len(src)+1.
SkipNewlines(src, si) ==
    IF si <= Len(src) /\ IsNewline(src[si]) THEN SkipNewlines(src, si + 1) ELSE si

\* The bytes of a quantum of dlen sextets (4: three bytes, 3: two, 2: one).
QuantumBytes(dbuf, dlen) ==
    LET val == dbuf[1] * 262144 + dbuf[2] * 4096 + dbuf[3] * 64 + dbuf[4]
        b == <<val \div 65536, (val \div 256) % 256, val % 256>>
    IN  SubSeq(b, 1, dlen - 1)

RECURSIVE DecodeQuantum(_, _, _, _)
\* decodeQuantum: reads one quantum of src from 1-based index si with j
\* sextets already in dbuf.  Returns [si, bytes, end, corrupt, at]: the next
\* index, the bytes decoded, whether the input ended, and for corrupt input
\* the 0-based offset Go reports.
DecodeQuantum(src, si, j, dbuf) ==
    IF j = 4
    THEN [si |-> si, bytes |-> QuantumBytes(dbuf, 4), end |-> FALSE,
          corrupt |-> FALSE, at |-> 0]
    ELSE IF si > Len(src)
    THEN IF j = 0
         THEN [si |-> si, bytes |-> <<>>, end |-> TRUE, corrupt |-> FALSE, at |-> 0]
         ELSE \* j = 1, or a padded encoding: a truncated quantum
              [si |-> si, bytes |-> <<>>, end |-> TRUE, corrupt |-> TRUE,
               at |-> (si - 1) - j]
    ELSE LET in == src[si]
             out == Base64Index(in)
         IN  IF out # 255
             THEN DecodeQuantum(src, si + 1, j + 1, [dbuf EXCEPT ![j + 1] = out])
             ELSE IF IsNewline(in)
             THEN DecodeQuantum(src, si + 1, j, dbuf)
             ELSE IF in # "="
             THEN [si |-> si + 1, bytes |-> <<>>, end |-> TRUE, corrupt |-> TRUE,
                   at |-> si - 1]
             ELSE IF j < 2
             THEN \* incorrect padding
                  [si |-> si + 1, bytes |-> <<>>, end |-> TRUE, corrupt |-> TRUE,
                   at |-> si - 1]
             ELSE LET s2 == IF j = 2 THEN SkipNewlines(src, si + 1) ELSE si + 1
                      \* j = 2: a second "=" is expected at s2
                      short == j = 2 /\ s2 > Len(src)
                      wrong == j = 2 /\ s2 <= Len(src) /\ src[s2] # "="
                      s3 == SkipNewlines(src, IF j = 2 THEN s2 + 1 ELSE s2)
                  IN  IF short
                      THEN [si |-> s2, bytes |-> <<>>, end |-> TRUE,
                            corrupt |-> TRUE, at |-> Len(src)]
                      ELSE IF wrong
                      THEN [si |-> s2, bytes |-> <<>>, end |-> TRUE,
                            corrupt |-> TRUE, at |-> s2 - 2]
                      ELSE IF s3 <= Len(src)
                      THEN \* trailing garbage
                           [si |-> s3, bytes |-> <<>>, end |-> TRUE,
                            corrupt |-> TRUE, at |-> s3 - 1]
                      ELSE [si |-> s3, bytes |-> QuantumBytes(dbuf, j),
                            end |-> TRUE, corrupt |-> FALSE, at |-> 0]

RECURSIVE DecodeFrom(_, _, _)
\* The loop of Encoding.Decode after a quantum q: stop at corrupt input or
\* at the end, else go on with the next quantum.
DecodeNext(src, acc, q) ==
    IF q.corrupt
    THEN [bytes |-> acc, err |-> NewError("illegal base64 data at input byte "
                                          \o ToString(q.at))]
    ELSE IF q.end
    THEN [bytes |-> acc \o q.bytes, err |-> NoError]
    ELSE DecodeFrom(src, q.si, acc \o q.bytes)

DecodeFrom(src, si, acc) == DecodeNext(src, acc, DecodeQuantum(src, si, 0, <<0, 0, 0, 0>>))

\* The decoder's results on the secrets of the input table, computed once.
KnownSecrets == {r.secret : r \in SecretInputs}
DecodedSecrets == [x \in KnownSecrets |-> DecodeFrom(x, 1, <<>>)]

\* base64.StdEncoding.DecodeString(s): the decoded bytes and the error.
DecodeString(s) == IF s \in KnownSecrets THEN DecodedSecrets[s] ELSE DecodeFrom(s, 1, <<>>)

-----------------------------------------------------------------------------
(* net/url: url.Parse, called at lines 199 and 211.  The model covers URLs  *)
(* over letters, digits and the characters : / - . and space: no fragment, *)
(* query, userinfo, IPv6 literal, percent escape or control character.     *)
(* Only Scheme and Host are read by the callers, and only for emptiness,   *)
(* so the scheme's lower-casing is left out.                               *)

RECURSIVE GetScheme(_, _)
\* getscheme(rawurl), scanning from 1-based index i.
\* [scheme, rest, bad]: bad is the "missing protocol scheme" error.
GetScheme(rawurl, i) ==
    IF i > Len(rawurl)
    THEN [scheme |-> <<>>, rest |-> rawurl, bad |-> FALSE]
    ELSE LET c == rawurl[i]
         IN  IF c \in LETTERS
             THEN GetScheme(rawurl, i + 1)
             ELSE IF c \in DIGITS \/ c = "+" \/ c = "-" \/ c = "."
             THEN IF i = 1
                  THEN [scheme |-> <<>>, rest |-> rawurl, bad |-> FALSE]
                  ELSE GetScheme(rawurl, i + 1)
             ELSE IF c = ":"
             THEN IF i = 1
                  THEN [scheme |-> <<>>, rest |-> <<>>, bad |-> TRUE]
                  ELSE [scheme |-> SubSeq(rawurl, 1, i - 1),
                        rest |-> SubSeq(rawurl, i + 1, Len(rawurl)), bad |-> FALSE]
             ELSE \* invalid character, so there is no valid scheme
                  [scheme |-> <<>>, rest |-> rawurl, bad |-> FALSE]

\* validOptionalPort: "" or ":" followed by digits only.
ValidOptionalPort(port) ==
    port = <<>> \/ (port[1] = ":" /\ \A i \in 2..Len(port) : port[i] \in DIGITS)

\* The characters url.shouldEscape lets through in a host, on the model's alphabet.
HostCharOK(c) == c \in LETTERS \/ c \in DIGITS \/ c \in {"-", ".", "_", ":"}

\* parseHost: the error text, or "" when the host is acceptable.
ParseHostError(host) ==
    LET i == LastIndexOf(host, ":")
        colonPort == IF i = 0 THEN <<>> ELSE SubSeq(host, i, Len(host))
    IN  IF i # 0 /\ ~ValidOptionalPort(colonPort)
        THEN "invalid port " \o Quote(colonPort) \o " after host"
        ELSE IF \E k \in 1..Len(host) : ~HostCharOK(host[k])
        THEN LET k == CHOOSE k \in 1..Len(host) :
                        ~HostCharOK(host[k]) /\ \A m \in 1..(k - 1) : HostCharOK(host[m])
             IN  "invalid character " \o Quote(<<host[k]>>) \o " in host name"
        ELSE ""

\* url.parse(rawurl, false) with the fragment set aside: [Scheme, Host, err];
\* err is the *url.Error.
Parse(rawurl) ==
    LET fail(m) == [Scheme |-> <<>>, Host |-> <<>>,
                    err |-> NewErrorEsc("parse " \o Quote(rawurl) \o ": " \o m,
                                        "parse \\\"" \o Str(rawurl) \o "\\\": " \o m)]
        g == GetScheme(rawurl, 1)
        rest == g.rest
        colon == IndexOf(rest, ":")
        slash == IndexOf(rest, "/")
        afterSlashes == SubSeq(rest, 3, Len(rest))
        cut == IndexOf(afterSlashes, "/")
        authority == IF cut = 0 THEN afterSlashes ELSE SubSeq(afterSlashes, 1, cut - 1)
    IN  IF rawurl = <<>> THEN fail("empty url")
        ELSE IF g.bad THEN fail("missing protocol scheme")
        ELSE IF rest = <<>> \/ rest[1] # "/"
        THEN IF g.scheme # <<>>
             THEN \* rootless path: the URL is opaque, it has no host
                  [Scheme |-> g.scheme, Host |-> <<>>, err |-> NoError]
             ELSE IF colon # 0 /\ (slash = 0 \/ colon < slash)
             THEN fail("first path segment in URL cannot contain colon")
             ELSE [Scheme |-> <<>>, Host |-> <<>>, err |-> NoError]
        ELSE IF HasPrefix2(rest, "/") /\ (g.scheme # <<>> \/ ~(Len(rest) >= 3 /\ rest[3] = "/"))
        THEN IF ParseHostError(authority) # ""
             THEN fail(ParseHostError(authority))
             ELSE [Scheme |-> g.scheme, Host |-> authority, err |-> NoError]
        ELSE [Scheme |-> g.scheme, Host |-> <<>>, err |-> NoError]

\* The parser's results on the URLs of the input table, computed once.
KnownUrls == {r.url : r \in UrlInputs}
ParsedUrls == [u \in KnownUrls |-> Parse(u)]

\* url.Parse(rawurl).
UrlParse(rawurl) == IF rawurl \in KnownUrls THEN ParsedUrls[rawurl] ELSE Parse(rawurl)

-----------------------------------------------------------------------------
(* net/http: Cookie.String, called at line 270 *)

\* httpguts.IsTokenRune on the model's alphabet.
IsTokenChar(c) ==
    c \in LETTERS \/ c \in DIGITS \/
    c \in {"!", "#", "+", "-", ".", "_", "~"}

\* isCookieNameValid: non-empty and made of token characters only.
IsCookieNameValid(raw) == raw # <<>> /\ \A i \in 1..Len(raw) : IsTokenChar(raw[i])

\* (&http.Cookie{Name: name}).String(): "" for an invalid name, else "name=".
CookieString(name) == IF IsCookieNameValid(name) THEN Str(name) \o "=" ELSE ""

-----------------------------------------------------------------------------
(* os.Open, called at line 376: the files that can be opened. *)

OpenablePath == <<"/", "o", "k">>
MissingPath == <<"/", "n", "o">>

OsOpenError(path) ==
    IF path = OpenablePath THEN NoError
    ELSE NewError("open " \o Str(path) \o ": no such file or directory")

-----------------------------------------------------------------------------
(* Values of the configuration tree *)

\* time.Duration: n seconds, n hours, and a raw count of nanoseconds.
Seconds(n) == [s |-> n, ns |-> 0]
Hours(n) == Seconds(3600 * n)
Nanoseconds(n) == [s |-> n \div 1000000000, ns |-> n % 1000000000]

\* A slice or map that is nil, and a non-nil slice with its elements.
Nil == [isNil |-> TRUE, elems |-> <<>>]
Slice(elems) == [isNil |-> FALSE, elems |-> elems]

\* The zero value of Configuration: what a composite literal leaves unset.
ZeroConfiguration ==
    [ServerConfig |->
        [Port |-> 0,
         TimeoutConfig |-> [Write |-> Seconds(0), Read |-> Seconds(0),
                            Shutdown |-> Seconds(0)]],
     ProviderConfig |->
        [ProviderType |-> <<>>, ProviderSlug |-> <<>>, Scope |-> <<>>,
         ProviderURLExternal |-> <<>>, ProviderURLInternal |-> <<>>,
         ProviderSkipAuthPreflight |-> <<>>],
     ClientConfig |-> [ID |-> <<>>, Secret |-> <<>>],
     SessionConfig |->
        [CookieConfig |->
            [Name |-> <<>>, Secret |-> <<>>, Expire |-> Seconds(0),
             Domain |-> <<>>, Secure |-> FALSE, HTTPOnly |-> FALSE,
             decodedSecret |-> Nil],
         TTLConfig |-> [Lifetime |-> Seconds(0), Valid |-> Seconds(0),
                        GracePeriod |-> Seconds(0)]],
     UpstreamConfigs |->
        [DefaultConfig |->
            [EmailConfig |-> [AllowedDomains |-> Nil, AllowedAddresses |-> Nil],
             AllowedGroups |-> Nil, ProviderSlug |-> <<>>,
             Timeout |-> Seconds(0), ResetDeadline |-> Seconds(0)],
         ConfigsFile |-> <<>>, testTemplateVars |-> Nil, upstreamConfigs |-> Nil,
         Cluster |-> <<>>, Scheme |-> <<>>],
     MetricsConfig |-> [StatsdConfig |-> [Port |-> 0, Host |-> <<>>]],
     LoggingConfig |-> [Enable |-> FALSE, Level |-> <<>>],
     RequestSignerConfig |-> [Key |-> <<>>]]

DefaultPort == 4180
DefaultStatsdPort == 8125

\* A faulty variant: defaults that fill in the URLs, the secrets, the ids
\* and the cluster.
PopulatedDefaults ==
    [ZeroConfiguration EXCEPT
        !.ServerConfig.Port = DefaultPort,
        !.ProviderConfig.ProviderType = S_sso,
        !.ProviderConfig.ProviderSlug = S_google,
        !.ProviderConfig.ProviderURLExternal = S_external,
        !.ProviderConfig.ProviderURLInternal = S_internal,
        !.ClientConfig = [ID |-> S_foo_id, Secret |-> S_bar_secret],
        !.SessionConfig.CookieConfig.Name = S_sso_proxy,
        !.SessionConfig.CookieConfig.Secret = S_test_secret,
        !.UpstreamConfigs.Cluster = S_foo_cluster,
        !.MetricsConfig.StatsdConfig = [Port |-> DefaultStatsdPort, Host |-> S_localhost]]

\* DefaultProxyConfig(): the fields the literal sets; the rest are zero.
DefaultProxyConfig ==
    [ZeroConfiguration EXCEPT
        !.ServerConfig.Port = DefaultPort,
        !.ServerConfig.TimeoutConfig =
            [Write |-> Seconds(30), Read |-> Seconds(30), Shutdown |-> Seconds(30)],
        !.ProviderConfig.ProviderType = S_sso,
        !.ProviderConfig.ProviderSlug = S_google,
        !.SessionConfig.CookieConfig.Name = S_sso_proxy,
        !.SessionConfig.CookieConfig.Expire = Hours(168),
        !.SessionConfig.CookieConfig.Secure = TRUE,
        !.SessionConfig.CookieConfig.HTTPOnly = TRUE,
        !.SessionConfig.TTLConfig =
            [Lifetime |-> Hours(720), Valid |-> Seconds(60), GracePeriod |-> Hours(3)],
        !.UpstreamConfigs.DefaultConfig.Timeout = Seconds(10),
        !.UpstreamConfigs.DefaultConfig.ResetDeadline = Seconds(60),
        !.UpstreamConfigs.Scheme = S_https,
        !.LoggingConfig = [Enable |-> TRUE, Level |-> S_INFO],
        !.MetricsConfig.StatsdConfig = [Port |-> DefaultStatsdPort, Host |-> S_localhost]]

-----------------------------------------------------------------------------
(* The validators.  Every Validate has a value receiver: it works on a copy *)
(* of the value it is called on.                                           *)

\* A faulty variant: a pointer receiver, whose writes reach the caller.
PointerReceiver(caller, local) == local

\* What the caller's value is once a method with a value receiver returns,
\* given the receiver's final local state: the caller's value, untouched.
ValueReceiver(caller, local) == caller

TimeoutConfigValidate(tc) == NoError

\* A faulty variant: ServerConfig.Validate without the port check.
ServerConfigChecksNoPort(sc, timeout) ==
    IF ~timeout.isNil THEN Wrap("invalid server.timeout config: ", timeout)
    ELSE NoError

ServerConfigChecks(sc, timeout) ==
    IF sc.Port = 0 THEN NewError("no server.port configured")
    ELSE IF ~timeout.isNil THEN Wrap("invalid server.timeout config: ", timeout)
    ELSE NoError

ServerConfigValidate(sc) == ServerConfigChecks(sc, TimeoutConfigValidate(sc.TimeoutConfig))

\* ProviderConfig.Validate, ext and int being url.Parse of the two URLs.
ProviderConfigChecks(p, ext, int) ==
    IF p.ProviderType = <<>>
    THEN NewError("invalid provider.type: " \o Quote(p.ProviderType))
    ELSE IF p.ProviderSlug = <<>>
    THEN NewError("invalid provider.slug: " \o Quote(p.ProviderSlug))
    ELSE IF p.ProviderURLExternal = <<>>
    THEN NewError("invalid provider.url_external: " \o Quote(p.ProviderURLExternal))
    ELSE IF ~ext.err.isNil
    THEN ext.err
    ELSE IF ext.Scheme = <<>> \/ ext.Host = <<>>
    THEN NewError("provider.url_external must include scheme and host")
    ELSE IF p.ProviderURLInternal = <<>>
    THEN NewError("invalid provider.url_internal: " \o Quote(p.ProviderURLInternal))
    ELSE IF ~int.err.isNil
    THEN NewError("invalid pc.url_internal configured: " \o QuoteError(int.err))
    ELSE IF int.Scheme = <<>> \/ int.Host = <<>>
    THEN NewError("proxy provider url must include scheme and host")
    ELSE NoError

ProviderConfigValidate(p) ==
    ProviderConfigChecks(p, UrlParse(p.ProviderURLExternal), UrlParse(p.ProviderURLInternal))

\* A faulty variant: 16-byte secrets accepted as well.
CookieSecretLengthsWith16 == {16, 32, 64}

\* The decoded lengths CookieConfig.Validate accepts (line 258).
ValidCookieSecretLengths == {32, 64}

\* CookieConfig.Validate on the receiver copy cc, d being the result of
\* DecodeString(cc.Secret): the error returned and the copy's final state
\* (line 264 assigns its decodedSecret).  The source's message quotes the
\* openssl command in backquotes, written ' here.
CookieConfigChecks(cc, d) ==
    IF cc.Secret = <<>>
    THEN [err |-> NewError("no cookie.secret configured"), recv |-> cc]
    ELSE IF ~d.err.isNil
    THEN [err |-> NewError("invalid cookie.secret configured; expected base64-encoded bytes, as from 'openssl rand 32 -base64': "
                           \o QuoteError(d.err)),
          recv |-> cc]
    ELSE IF Len(d.bytes) \notin ValidCookieSecretLengths
    THEN [err |-> NewError("Invalid value for cookie.secret; must decode to 32 or 64 bytes, but decoded to "
                           \o ToString(Len(d.bytes)) \o " bytes"),
          recv |-> cc]
    ELSE IF CookieString(cc.Name) = ""
    THEN [err |-> NewError("invalid cc.name: " \o Quote(cc.Name)),
          recv |-> [cc EXCEPT !.decodedSecret = Slice(d.bytes)]]
    ELSE [err |-> NoError, recv |-> [cc EXCEPT !.decodedSecret = Slice(d.bytes)]]

CookieConfigRun(cc) == CookieConfigChecks(cc, DecodeString(cc.Secret))

CookieConfigValidate(cc) == CookieConfigRun(cc).err

TTLConfigValidate(ttlc) == NoError

\* SessionConfig.Validate on the receiver copy sc, c and ttl being the
\* results of its two sections' Validate.
SessionConfigChecks(sc, c, ttl) ==
    IF ~c.err.isNil
    THEN [err |-> Wrap("invalid session.cookie config: ", c.err),
          recv |-> [sc EXCEPT !.CookieConfig = ValueReceiver(@, c.recv)]]
    ELSE IF ~ttl.isNil
    THEN [err |-> Wrap("invalid session.ttl config: ", ttl),
          recv |-> [sc EXCEPT !.CookieConfig = ValueReceiver(@, c.recv)]]
    ELSE [err |-> NoError, recv |-> [sc EXCEPT !.CookieConfig = ValueReceiver(@, c.recv)]]

SessionConfigRun(sc) ==
    SessionConfigChecks(sc, CookieConfigRun(sc.CookieConfig), TTLConfigValidate(sc.TTLConfig))

SessionConfigValidate(sc) == SessionConfigRun(sc).err

\* A faulty variant: ClientConfig.Validate without the secret check.
ClientConfigValidateNoSecret(cc) ==
    IF cc.ID = <<>> THEN NewError("no client.id configured")
    ELSE NoError

ClientConfigValidate(cc) ==
    IF cc.ID = <<>> THEN NewError("no client.id configured")
    ELSE IF cc.Secret = <<>> THEN NewError("no client.secret configured")
    ELSE NoError

StatsdConfigValidate(sc) ==
    IF sc.Host = <<>> THEN NewError("no statsd.host configured")
    ELSE IF sc.Port = 0 THEN NewError(" no statsd.port configured")
    ELSE NoError

MetricsConfigChecks(statsd) ==
    IF ~statsd.isNil THEN Wrap("invalid metrics.statsd config: ", statsd) ELSE NoError

MetricsConfigValidate(mc) == MetricsConfigChecks(StatsdConfigValidate(mc.StatsdConfig))

LoggingConfigValidate(lc) == NoError

UpstreamConfigsChecks(uc, open) ==
    IF uc.ConfigsFile # <<>> /\ ~open.isNil
    THEN Wrap("invalid upstream.config filepath: ", open)
    ELSE IF uc.Cluster = <<>>
    THEN NewError("no upstream.config cluster configured")
    ELSE NoError

UpstreamConfigsValidate(uc) == UpstreamConfigsChecks(uc, OsOpenError(uc.ConfigsFile))

DefaultConfigValidate(dc) == NoError

EmailConfigValidate(ec) == NoError

RequestSignerConfigValidate(rsc) == NoError

\* Configuration.Validate on the receiver copy c: the results of the
\* sections' Validate, consulted in the order of the source, the first
\* failure wrapped with the prefix the source gives it.
ConfigurationChecks(c, server, provider, session, client, upstream, metrics, logging, signer) ==
    IF ~server.isNil
    THEN [err |-> Wrap("invalid server config: ", server), recv |-> c]
    ELSE IF ~provider.isNil
    THEN [err |-> Wrap("invalid provider config: ", provider), recv |-> c]
    ELSE IF ~session.err.isNil
    THEN [err |-> Wrap("invalid session config: ", session.err),
          recv |-> [c EXCEPT !.SessionConfig = ValueReceiver(@, session.recv)]]
    ELSE IF ~client.isNil
    THEN [err |-> Wrap("invalid session config: ", client),
          recv |-> [c EXCEPT !.SessionConfig = ValueReceiver(@, session.recv)]]
    ELSE IF ~upstream.isNil
    THEN [err |-> Wrap("invalid upstream config: ", upstream),
          recv |-> [c EXCEPT !.SessionConfig = ValueReceiver(@, session.recv)]]
    ELSE IF ~metrics.isNil
    THEN [err |-> Wrap("invalid metrics config: ", metrics),
          recv |-> [c EXCEPT !.SessionConfig = ValueReceiver(@, session.recv)]]
    ELSE IF ~logging.isNil
    THEN [err |-> Wrap("invalid metrics config: ", logging),
          recv |-> [c EXCEPT !.SessionConfig = ValueReceiver(@, session.recv)]]
    ELSE IF ~signer.isNil
    THEN [err |-> Wrap("invalid metrics config: ", signer),
          recv |-> [c EXCEPT !.SessionConfig = ValueReceiver(@, session.recv)]]
    ELSE [err |-> NoError,
          recv |-> [c EXCEPT !.SessionConfig = ValueReceiver(@, session.recv)]]

ConfigurationRun(c) ==
    ConfigurationChecks(c,
        ServerConfigValidate(c.ServerConfig),
        ProviderConfigValidate(c.ProviderConfig),
        SessionConfigRun(c.SessionConfig),
        ClientConfigValidate(c.ClientConfig),
        UpstreamConfigsValidate(c.UpstreamConfigs),
        MetricsConfigValidate(c.MetricsConfig),
        LoggingConfigValidate(c.LoggingConfig),
        RequestSignerConfigValidate(c.RequestSignerConfig))

ConfigurationValidate(c) == ConfigurationRun(c).err

-----------------------------------------------------------------------------
(* strconv and time, as the environment source and the decode hooks call   *)
(* them.  Environment values are over letters, digits and , - / = +        *)

RECURSIVE DigitsValue(_, _)
\* The number a tuple of digits spells, most significant first.
DigitsValue(ds, acc) ==
    IF ds = <<>> THEN acc ELSE DigitsValue(Tail(ds), acc * 10 + DigitVal(Head(ds)))

AllDigits(s) == s # <<>> /\ \A i \in 1..Len(s) : s[i] \in DIGITS

\* strconv.Atoi: an optional sign and digits.  [ok, n].
Atoi(s) ==
    LET signed == s # <<>> /\ s[1] \in {"+", "-"}
        body == IF signed THEN Tail(s) ELSE s
    IN  IF AllDigits(body)
        THEN [ok |-> TRUE,
              n |-> IF signed /\ s[1] = "-" THEN 0 - DigitsValue(body, 0)
                    ELSE DigitsValue(body, 0)]
        ELSE [ok |-> FALSE, n |-> 0]

\* strconv.ParseBool.  [ok, b].
ParseBool(s) ==
    IF Str(s) \in {"1", "t", "T", "TRUE", "true", "True"} THEN [ok |-> TRUE, b |-> TRUE]
    ELSE IF Str(s) \in {"0", "f", "F", "FALSE", "false", "False"}
    THEN [ok |-> TRUE, b |-> FALSE]
    ELSE [ok |-> FALSE, b |-> FALSE]

DurAdd(a, b) ==
    [s |-> a.s + b.s + (a.ns + b.ns) \div 1000000000, ns |-> (a.ns + b.ns) % 1000000000]

\* n units of a duration, for the units of time.ParseDuration's unitMap.
DurUnits(n, unit) ==
    CASE unit = "h" -> Seconds(3600 * n)
      [] unit = "m" -> Seconds(60 * n)
      [] unit = "s" -> Seconds(n)
      [] unit = "ms" -> [s |-> n \div 1000, ns |-> (n % 1000) * 1000000]
      [] unit = "us" -> [s |-> n \div 1000000, ns |-> (n % 1000000) * 1000]
      [] unit = "ns" -> Nanoseconds(n)

DurationUnits == {"h", "m", "s", "ms", "us", "ns"}

\* The length of the longest prefix of s from index i made of digits
\* (digits = TRUE) or of characters that are no digit (digits = FALSE).
RECURSIVE Span(_, _, _)
Span(s, i, digits) ==
    IF i <= Len(s) /\ ((s[i] \in DIGITS) = digits) THEN 1 + Span(s, i + 1, digits) ELSE 0

RECURSIVE ParseDurationFrom(_, _, _)
\* The groups of time.ParseDuration: digits then a unit, until the end.
ParseDurationFrom(s, i, acc) ==
    IF i > Len(s) THEN [ok |-> TRUE, d |-> acc]
    ELSE LET nd == Span(s, i, TRUE)
             nu == Span(s, i + nd, FALSE)
             unit == Str(SubSeq(s, i + nd, i + nd + nu - 1))
         IN  IF nd = 0 \/ nu = 0 \/ unit \notin DurationUnits
             THEN [ok |-> FALSE, d |-> Seconds(0)]
             ELSE ParseDurationFrom(s, i + nd + nu,
                      DurAdd(acc, DurUnits(DigitsValue(SubSeq(s, i, i + nd - 1), 0), unit)))

\* time.ParseDuration on unsigned durations without fractions.  [ok, d].
ParseDuration(s) ==
    IF s = <<>> THEN [ok |-> FALSE, d |-> Seconds(0)]
    ELSE IF s = <<"0">> THEN [ok |-> TRUE, d |-> Seconds(0)]
    ELSE ParseDurationFrom(s, 1, Seconds(0))

RECURSIVE SplitComma(_, _)
\* strings.Split(s, ","), cur being the element under construction.
SplitComma(s, cur) ==
    IF s = <<>> THEN <<cur>>
    ELSE IF Head(s) = "," THEN <<cur>> \o SplitComma(Tail(s), <<>>)
    ELSE SplitComma(Tail(s), Append(cur, Head(s)))

-----------------------------------------------------------------------------
(* go-micro config/source/env, called at lines 423-424: the environment as *)
(* a tree of maps.  An environment key is the tuple of the segments its    *)
(* underscores separate, so strings.Split(key, "_") yields its elements.   *)

\* strings.ToLower, and the folding of strings.EqualFold, on the names of
\* the model: environment key segments and Go field names.
LowerPairs ==
    {<<"SESSION", "session">>, <<"COOKIE", "cookie">>, <<"NAME", "name">>,
     <<"SECRET", "secret">>, <<"EXPIRE", "expire">>, <<"DOMAIN", "domain">>,
     <<"HTTPONLY", "httponly">>, <<"SECURE", "secure">>, <<"TTL", "ttl">>,
     <<"LIFETIME", "lifetime">>, <<"VALID", "valid">>,
     <<"GRACEPERIOD", "graceperiod">>, <<"GracePeriod", "graceperiod">>,
     <<"REQUESTSIGNER", "requestsigner">>, <<"KEY", "key">>,
     <<"CLIENT", "client">>, <<"ID", "id">>, <<"SERVER", "server">>,
     <<"PORT", "port">>, <<"TIMEOUT", "timeout">>, <<"SHUTDOWN", "shutdown">>,
     <<"READ", "read">>, <<"WRITE", "write">>, <<"METRICS", "metrics">>,
     <<"METRICSCONFIG", "metricsconfig">>, <<"MetricsConfig", "metricsconfig">>,
     <<"STATSD", "statsd">>, <<"HOST", "host">>, <<"LOGGING", "logging">>,
     <<"ENABLE", "enable">>, <<"LEVEL", "level">>, <<"UPSTREAM", "upstream">>,
     <<"DEFAULT", "default">>, <<"DEFAULTCONFIG", "defaultconfig">>,
     <<"DefaultConfig", "defaultconfig">>, <<"EMAIL", "email">>,
     <<"DOMAINS", "domains">>, <<"ADDRESSES", "addresses">>,
     <<"GROUPS", "groups">>, <<"TCP", "tcp">>, <<"RESET", "reset">>,
     <<"DEADLINE", "deadline">>, <<"RESETDEADINE", "resetdeadine">>,
     <<"PROVIDER", "provider">>, <<"SLUG", "slug">>, <<"CONFIGS", "configs">>,
     <<"CONFIG", "config">>, <<"FILE", "file">>, <<"SCHEME", "scheme">>,
     <<"CLUSTER", "cluster">>, <<"TYPE", "type">>, <<"URL", "url">>,
     <<"EXTERNAL", "external">>, <<"INTERNAL", "internal">>,
     <<"SCOPE", "scope">>, <<"HOME", "home">>, <<"PATH", "path">>,
     <<"DECODEDSECRET", "decodedsecret">>, <<"decodedSecret", "decodedsecret">>,
     <<"testTemplateVars", "testtemplatevars">>,
     <<"upstreamConfigs", "upstreamconfigs">>}

LowerMap == [w \in {p[1] : p \in LowerPairs} |-> (CHOOSE p \in LowerPairs : p[1] = w)[2]]

UpperNames == DOMAIN LowerMap

ToLower(w) == IF w \in UpperNames THEN LowerMap[w] ELSE w

EqualFold(a, b) == ToLower(a) = ToLower(b)

\* A value of the tree: a map, or a leaf of the type the source gave it.
MapNode(m) == [kind |-> "map", m |-> m]
EmptyMap == << >>

\* The leaf the source makes of a value: an int when strconv.Atoi accepts
\* it, else a bool when strconv.ParseBool does, else the string.  The tree
\* then passes through JSON, which turns the int into a float64.
EnvLeaf(value) ==
    IF Atoi(value).ok THEN [kind |-> "float64", v |-> Atoi(value).n]
    ELSE IF ParseBool(value).ok THEN [kind |-> "bool", v |-> ParseBool(value).b]
    ELSE [kind |-> "string", v |-> value]

RECURSIVE EnvTree(_, _)
\* The one-path tree of a variable: keys are its lower-cased segments.
EnvTree(keys, value) ==
    IF Len(keys) = 1 THEN ToLower(keys[1]) :> EnvLeaf(value)
    ELSE ToLower(keys[1]) :> MapNode(EnvTree(Tail(keys), value))

\* A faulty variant: a merge that replaces a common key's value instead of
\* merging the maps under it.
MergeShallow(dst, src) ==
    [k \in DOMAIN dst \cup DOMAIN src |-> IF k \in DOMAIN src THEN src[k] ELSE dst[k]]

RECURSIVE Merge(_, _)
\* mergo.Map(&dst, src) without overwrite: keys new to dst are added, maps
\* under a common key are merged, and otherwise dst's value stays.
Merge(dst, src) ==
    [k \in DOMAIN dst \cup DOMAIN src |->
        IF k \notin DOMAIN dst THEN src[k]
        ELSE IF k \notin DOMAIN src THEN dst[k]
        ELSE IF dst[k].kind = "map" /\ src[k].kind = "map"
        THEN MapNode(Merge(dst[k].m, src[k].m))
        ELSE dst[k]]

RECURSIVE EnvRead(_, _)
\* env.Read over os.Environ() in the given order: [key, val] entries.
EnvRead(environ, changes) ==
    IF environ = <<>> THEN changes
    ELSE EnvRead(Tail(environ), Merge(changes, EnvTree(Head(environ).key, Head(environ).val)))

-----------------------------------------------------------------------------
(* The struct types: each field's Go name, its mapstructure tag ("" when    *)
(* the field has none, or has a tag under another key) and its type.        *)

F(go, tag, type) == [go |-> go, tag |-> tag, type |-> type, exported |-> TRUE]
Unexported(go, type) == [go |-> go, tag |-> "", type |-> type, exported |-> FALSE]

StructTypes ==
    {"Configuration", "ProviderConfig", "SessionConfig", "CookieConfig", "TTLConfig",
     "ClientConfig", "ServerConfig", "TimeoutConfig", "MetricsConfig", "StatsdConfig",
     "LoggingConfig", "UpstreamConfigs", "DefaultConfig", "EmailConfig",
     "RequestSignerConfig"}

\* The fields of each struct type, in declaration order.
StructFields ==
    [T \in StructTypes |->
        CASE T = "Configuration" ->
                <<F("ServerConfig", "server", "ServerConfig"),
                  F("ProviderConfig", "provider", "ProviderConfig"),
                  F("ClientConfig", "client", "ClientConfig"),
                  F("SessionConfig", "session", "SessionConfig"),
                  F("UpstreamConfigs", "upstream", "UpstreamConfigs"),
                  F("MetricsConfig", "", "MetricsConfig"),
                  F("LoggingConfig", "logging", "LoggingConfig"),
                  F("RequestSignerConfig", "requestsigner", "RequestSignerConfig")>>
          [] T = "ProviderConfig" ->
                <<F("ProviderType", "type", "string"),
                  F("ProviderSlug", "slug", "string"),
                  F("Scope", "scope", "string"),
                  F("ProviderURLExternal", "url_external", "string"),
                  F("ProviderURLInternal", "url_internal", "string"),
                  F("ProviderSkipAuthPreflight", "skip_auth_preflight", "string")>>
          [] T = "SessionConfig" ->
                <<F("CookieConfig", "cookie", "CookieConfig"),
                  F("TTLConfig", "ttl", "TTLConfig")>>
          [] T = "CookieConfig" ->
                <<F("Name", "name", "string"),
                  F("Secret", "secret", "string"),
                  F("Expire", "expire", "duration"),
                  F("Domain", "domain", "string"),
                  F("Secure", "secure", "bool"),
                  F("HTTPOnly", "httponly", "bool"),
                  Unexported("decodedSecret", "bytes")>>
          [] T = "TTLConfig" ->
                <<F("Lifetime", "lifetime", "duration"),
                  F("Valid", "valid", "duration"),
                  F("GracePeriod", "", "duration")>>
          [] T = "ClientConfig" ->
                <<F("ID", "id", "string"), F("Secret", "secret", "string")>>
          [] T = "ServerConfig" ->
                <<F("Port", "port", "int"), F("TimeoutConfig", "timeout", "TimeoutConfig")>>
          [] T = "TimeoutConfig" ->
                <<F("Write", "write", "duration"),
                  F("Read", "read", "duration"),
                  F("Shutdown", "shutdown", "duration")>>
          [] T = "MetricsConfig" -> <<F("StatsdConfig", "statsd", "StatsdConfig")>>
          [] T = "StatsdConfig" ->
                <<F("Port", "port", "int"), F("Host", "host", "string")>>
          [] T = "LoggingConfig" ->
                <<F("Enable", "enable", "bool"), F("Level", "level", "string")>>
          [] T = "UpstreamConfigs" ->
                <<F("DefaultConfig", "", "DefaultConfig"),
                  F("ConfigsFile", "config", "string"),
                  Unexported("testTemplateVars", "map"),
                  Unexported("upstreamConfigs", "slice"),
                  F("Cluster", "cluster", "string"),
                  F("Scheme", "scheme", "string")>>
          [] T = "DefaultConfig" ->
                <<F("EmailConfig", "email", "EmailConfig"),
                  F("AllowedGroups", "groups", "strings"),
                  F("ProviderSlug", "slug", "string"),
                  F("Timeout", "timeout", "duration"),
                  F("ResetDeadline", "resetdeadine", "duration")>>
          [] T = "EmailConfig" ->
                <<F("AllowedDomains", "domains", "strings"),
                  F("AllowedAddresses", "addresses", "strings")>>
          [] T = "RequestSignerConfig" -> <<F("Key", "key", "string")>>]

Fields(T) == StructFields[T]

-----------------------------------------------------------------------------
(* mitchellh/mapstructure, configured at lines 429-435 and run at line 440: *)
(* no weak typing, unused keys ignored, the two decode hooks composed.      *)

\* The name mapstructure looks a field up by: its tag, else its Go name.
FieldName(f) == IF f.tag # "" THEN f.tag ELSE f.go

\* The key of the map m that feeds field f: the exact name, else a key equal
\* to it under case folding; "" when there is none.
MatchKey(m, f) ==
    IF FieldName(f) \in DOMAIN m THEN FieldName(f)
    ELSE IF \E k \in DOMAIN m : EqualFold(k, FieldName(f))
    THEN CHOOSE k \in DOMAIN m : EqualFold(k, FieldName(f))
    ELSE ""

\* The Go type a tree value is reported as in an error.
GoTypeOf(node) ==
    CASE node.kind = "map" -> "map[string]interface {}"
      [] node.kind = "slice" -> "[]string"
      [] node.kind = "duration" -> "time.Duration"
      [] OTHER -> node.kind

\* A faulty variant: a hook that turns an unparsable duration into zero
\* instead of failing.
DecodeHookLenient(node, type) ==
    IF node.kind = "string" /\ type = "duration"
    THEN [node |-> [kind |-> "duration",
                    v |-> IF ParseDuration(node.v).ok THEN ParseDuration(node.v).d
                          ELSE Seconds(0)],
          failed |-> FALSE]
    ELSE IF node.kind = "string" /\ type = "strings"
    THEN [node |-> [kind |-> "slice",
                    v |-> IF node.v = <<>> THEN <<>> ELSE SplitComma(node.v, <<>>)],
          failed |-> FALSE]
    ELSE [node |-> node, failed |-> FALSE]

\* ComposeDecodeHookFunc(StringToTimeDurationHookFunc(), StringToSliceHookFunc(",")):
\* a string bound for a Duration is parsed, a string bound for a slice is
\* split on commas; anything else passes through.  [node, failed].
DecodeHook(node, type) ==
    IF node.kind = "string" /\ type = "duration"
    THEN IF ParseDuration(node.v).ok
         THEN [node |-> [kind |-> "duration", v |-> ParseDuration(node.v).d],
               failed |-> FALSE]
         ELSE [node |-> node, failed |-> TRUE]
    ELSE IF node.kind = "string" /\ type = "strings"
    THEN [node |-> [kind |-> "slice",
                    v |-> IF node.v = <<>> THEN <<>> ELSE SplitComma(node.v, <<>>)],
          failed |-> FALSE]
    ELSE [node |-> node, failed |-> FALSE]

Unconvertible(name, type, node) ==
    "'" \o name \o "' expected type '" \o type \o "', got unconvertible type '"
        \o GoTypeOf(node) \o "'"

RECURSIVE Decode(_, _, _, _)
RECURSIVE DecodeFields(_, _, _, _, _)

\* decodeStructFromMap from field i on: every field with a matching key is
\* decoded in place; a failure is recorded and the remaining fields are
\* still decoded.  [val, errs].
DecodeFields(T, name, m, cur, i) ==
    IF i > Len(Fields(T)) THEN [val |-> cur, errs |-> {}]
    ELSE LET f == Fields(T)[i]
             k == MatchKey(m, f)
             full == IF name = "" THEN FieldName(f) ELSE name \o "." \o FieldName(f)
         IN  IF k = "" \/ ~f.exported
             THEN DecodeFields(T, name, m, cur, i + 1)
             ELSE LET r == Decode(full, m[k], f.type, cur[f.go])
                      rest == DecodeFields(T, name, m, [cur EXCEPT ![f.go] = r.val], i + 1)
                  IN  [val |-> rest.val, errs |-> r.errs \cup rest.errs]

\* Decoder.decode of the tree value input into a value of the given type
\* that currently holds cur.  [val, errs].
Decode(name, input, type, cur) ==
    LET h == DecodeHook(input, type)
        node == h.node
        keep(e) == [val |-> cur, errs |-> {e}]
        set(v) == [val |-> v, errs |-> {}]
    IN  IF h.failed
        THEN keep("error decoding '" \o name \o "': time: invalid duration "
                  \o Quote(input.v))
        ELSE IF type \in StructTypes
        THEN IF node.kind = "map" THEN DecodeFields(type, name, node.m, cur, 1)
             ELSE keep("'" \o name \o "' expected a map, got '" \o node.kind \o "'")
        ELSE IF type = "string"
        THEN IF node.kind = "string" THEN set(node.v)
             ELSE keep(Unconvertible(name, "string", node))
        ELSE IF type = "bool"
        THEN IF node.kind = "bool" THEN set(node.v)
             ELSE keep(Unconvertible(name, "bool", node))
        ELSE IF type = "int"
        THEN IF node.kind = "float64" THEN set(node.v)
             ELSE keep(Unconvertible(name, "int", node))
        ELSE IF type = "duration"
        THEN IF node.kind = "duration" THEN set(node.v)
             ELSE IF node.kind = "float64" THEN set(Nanoseconds(node.v))
             ELSE keep(Unconvertible(name, "time.Duration", node))
        ELSE \* type = "strings"
             IF node.kind = "slice"
             THEN IF node.v = <<>> THEN set(cur) ELSE set(Slice(node.v))
             ELSE keep("'" \o name \o "': source data must be an array or slice, got "
                       \o node.kind)

\* A faulty variant: loading into the zero value.
LoadStartZero == ZeroConfiguration

\* The configuration LoadConfig starts from (line 421).
LoadStart == DefaultProxyConfig

\* LoadConfig with os.Environ() in the given order: the Configuration and
\* the error returned.  The decoder writes through &c, so c is returned as
\* the decoder left it.  The error keeps mapstructure's messages as a set.
LoadConfig(environ) ==
    LET tree == EnvRead(environ, EmptyMap)
        r == IF DOMAIN tree = {} THEN [val |-> LoadStart, errs |-> {}]
             ELSE Decode("", MapNode(tree), "Configuration", LoadStart)
    IN  [c |-> r.val, err |-> [isNil |-> r.errs = {}, errors |-> r.errs]]

-----------------------------------------------------------------------------
(* Values the callers supply: the literals of configuration_test.go and    *)
(* the inputs the model draws from.                                        *)

\* Configuration{...} of the test case "config validation should pass".
PassingConfiguration ==
    [ZeroConfiguration EXCEPT
        !.ServerConfig.Port = DefaultPort,
        !.ServerConfig.TimeoutConfig =
            [Write |-> Seconds(30), Read |-> Seconds(30), Shutdown |-> Seconds(30)],
        !.ProviderConfig.ProviderType = S_sso,
        !.ProviderConfig.ProviderSlug = S_google,
        !.ProviderConfig.Scope = S_test,
        !.ProviderConfig.ProviderURLExternal = S_external,
        !.ProviderConfig.ProviderURLInternal = S_internal,
        !.ClientConfig = [ID |-> S_foo_id, Secret |-> S_bar_secret],
        !.SessionConfig.CookieConfig.Name = S_sso_proxy,
        !.SessionConfig.CookieConfig.Expire = Hours(168),
        !.SessionConfig.CookieConfig.Secure = TRUE,
        !.SessionConfig.CookieConfig.Secret = S_test_secret,
        !.SessionConfig.CookieConfig.HTTPOnly = TRUE,
        !.SessionConfig.TTLConfig =
            [Lifetime |-> Hours(720), Valid |-> Seconds(60), GracePeriod |-> Hours(3)],
        !.UpstreamConfigs.DefaultConfig.Timeout = Seconds(10),
        !.UpstreamConfigs.DefaultConfig.ResetDeadline = Seconds(60),
        !.UpstreamConfigs.Scheme = S_https,
        !.UpstreamConfigs.Cluster = S_foo_cluster,
        !.LoggingConfig = [Enable |-> TRUE, Level |-> S_INFO],
        !.MetricsConfig.StatsdConfig = [Port |-> DefaultStatsdPort, Host |-> S_localhost]]

\* Configuration{...} of the test case "missing server.port configuration".
MissingPortConfiguration ==
    [ZeroConfiguration EXCEPT
        !.ServerConfig.TimeoutConfig =
            [Write |-> Seconds(30), Read |-> Seconds(30), Shutdown |-> Seconds(30)]]

Literals == {DefaultProxyConfig, PassingConfiguration, MissingPortConfiguration}

\* Cookie names, each with whether it is a token.
NameInputs ==
    {[name |-> S_sso_proxy, token |-> TRUE],
     [name |-> S_foo_cookie_name, token |-> TRUE],
     [name |-> S_foo, token |-> TRUE],
     [name |-> <<>>, token |-> FALSE],
     [name |-> <<"a", " ", "b">>, token |-> FALSE],
     [name |-> <<"a", ";", "b">>, token |-> FALSE],
     [name |-> <<"a", "=", "b">>, token |-> FALSE]}

\* The environment keys the doc comment of DefaultProxyConfig lists, each
\* with the field it is documented to set, a well-formed value and the
\* field's value after coercion.
Documented ==
    {[key |-> <<"SESSION", "COOKIE", "NAME">>, val |-> S_foo_cookie_name,
      field |-> <<"SessionConfig", "CookieConfig", "Name">>, want |-> S_foo_cookie_name],
     [key |-> <<"SESSION", "COOKIE", "SECRET">>, val |-> S_test_secret,
      field |-> <<"SessionConfig", "CookieConfig", "Secret">>, want |-> S_test_secret],
     [key |-> <<"SESSION", "COOKIE", "EXPIRE">>, val |-> S_60s,
      field |-> <<"SessionConfig", "CookieConfig", "Expire">>, want |-> Seconds(60)],
     [key |-> <<"SESSION", "COOKIE", "DOMAIN">>, val |-> S_foo,
      field |-> <<"SessionConfig", "CookieConfig", "Domain">>, want |-> S_foo],
     [key |-> <<"SESSION", "COOKIE", "HTTPONLY">>, val |-> S_false,
      field |-> <<"SessionConfig", "CookieConfig", "HTTPOnly">>, want |-> FALSE],
     [key |-> <<"SESSION", "TTL", "LIFETIME">>, val |-> S_60s,
      field |-> <<"SessionConfig", "TTLConfig", "Lifetime">>, want |-> Seconds(60)],
     [key |-> <<"SESSION", "TTL", "VALID">>, val |-> S_1h30m,
      field |-> <<"SessionConfig", "TTLConfig", "Valid">>, want |-> Seconds(5400)],
     [key |-> <<"SESSION", "TTL", "GRACEPERIOD">>, val |-> S_1h30m,
      field |-> <<"SessionConfig", "TTLConfig", "GracePeriod">>, want |-> Seconds(5400)],
     [key |-> <<"REQUESTSIGNER", "KEY">>, val |-> S_foo,
      field |-> <<"RequestSignerConfig", "Key">>, want |-> S_foo],
     [key |-> <<"CLIENT", "ID">>, val |-> S_foo_id,
      field |-> <<"ClientConfig", "ID">>, want |-> S_foo_id],
     [key |-> <<"CLIENT", "SECRET">>, val |-> S_bar_secret,
      field |-> <<"ClientConfig", "Secret">>, want |-> S_bar_secret],
     [key |-> <<"SERVER", "PORT">>, val |-> S_99,
      field |-> <<"ServerConfig", "Port">>, want |-> 99],
     [key |-> <<"SERVER", "TIMEOUT", "SHUTDOWN">>, val |-> S_60s,
      field |-> <<"ServerConfig", "TimeoutConfig", "Shutdown">>, want |-> Seconds(60)],
     [key |-> <<"SERVER", "TIMEOUT", "READ">>, val |-> S_60s,
      field |-> <<"ServerConfig", "TimeoutConfig", "Read">>, want |-> Seconds(60)],
     [key |-> <<"SERVER", "TIMEOUT", "WRITE">>, val |-> S_60s,
      field |-> <<"ServerConfig", "TimeoutConfig", "Write">>, want |-> Seconds(60)],
     [key |-> <<"METRICS", "STATSD", "HOST">>, val |-> S_foo,
      field |-> <<"MetricsConfig", "StatsdConfig", "Host">>, want |-> S_foo],
     [key |-> <<"METRICS", "STATSD", "PORT">>, val |-> S_99,
      field |-> <<"MetricsConfig", "StatsdConfig", "Port">>, want |-> 99],
     [key |-> <<"LOGGING", "ENABLE">>, val |-> S_false,
      field |-> <<"LoggingConfig", "Enable">>, want |-> FALSE],
     [key |-> <<"LOGGING", "LEVEL">>, val |-> S_foo,
      field |-> <<"LoggingConfig", "Level">>, want |-> S_foo],
     [key |-> <<"UPSTREAM", "DEFAULT", "EMAIL", "DOMAINS">>, val |-> S_a_b,
      field |-> <<"UpstreamConfigs", "DefaultConfig", "EmailConfig", "AllowedDomains">>, want |-> Slice(<<<<"a">>, <<"b">>>>)],
     [key |-> <<"UPSTREAM", "DEFAULT", "EMAIL", "ADDRESSES">>, val |-> S_a_b,
      field |-> <<"UpstreamConfigs", "DefaultConfig", "EmailConfig", "AllowedAddresses">>, want |-> Slice(<<<<"a">>, <<"b">>>>)],
     [key |-> <<"UPSTREAM", "DEFAULT", "EMAIL", "GROUPS">>, val |-> S_a_b,
      field |-> <<"UpstreamConfigs", "DefaultConfig", "AllowedGroups">>, want |-> Slice(<<<<"a">>, <<"b">>>>)],
     [key |-> <<"UPSTREAM", "DEFAULT", "TIMEOUT">>, val |-> S_60s,
      field |-> <<"UpstreamConfigs", "DefaultConfig", "Timeout">>, want |-> Seconds(60)],
     [key |-> <<"UPSTREAM", "DEFAULT", "TCP", "RESET", "DEADLINE">>, val |-> S_1h30m,
      field |-> <<"UpstreamConfigs", "DefaultConfig", "ResetDeadline">>, want |-> Seconds(5400)],
     [key |-> <<"UPSTREAM", "DEFAULT", "PROVIDER", "SLUG">>, val |-> S_foo_slug,
      field |-> <<"UpstreamConfigs", "DefaultConfig", "ProviderSlug">>, want |-> S_foo_slug],
     [key |-> <<"UPSTREAM", "CONFIGS", "FILE">>, val |-> OpenablePath,
      field |-> <<"UpstreamConfigs", "ConfigsFile">>, want |-> OpenablePath],
     [key |-> <<"UPSTREAM", "SCHEME">>, val |-> S_foo,
      field |-> <<"UpstreamConfigs", "Scheme">>, want |-> S_foo],
     [key |-> <<"UPSTREAM", "CLUSTER">>, val |-> S_foo_cluster,
      field |-> <<"UpstreamConfigs", "Cluster">>, want |-> S_foo_cluster],
     [key |-> <<"PROVIDER", "TYPE">>, val |-> S_foo,
      field |-> <<"ProviderConfig", "ProviderType">>, want |-> S_foo],
     [key |-> <<"PROVIDER", "URL", "EXTERNAL">>, val |-> S_external,
      field |-> <<"ProviderConfig", "ProviderURLExternal">>, want |-> S_external],
     [key |-> <<"PROVIDER", "URL", "INTERNAL">>, val |-> S_internal,
      field |-> <<"ProviderConfig", "ProviderURLInternal">>, want |-> S_internal],
     [key |-> <<"PROVIDER", "SLUG">>, val |-> S_foo_slug,
      field |-> <<"ProviderConfig", "ProviderSlug">>, want |-> S_foo_slug],
     [key |-> <<"PROVIDER", "SCOPE">>, val |-> S_test,
      field |-> <<"ProviderConfig", "Scope">>, want |-> S_test]}

\* Variables whose value cannot be decoded into the field their key reaches.
FailingInputs ==
    {[key |-> <<"SERVER", "TIMEOUT", "WRITE">>, val |-> S_bogus, field |-> <<"ServerConfig", "TimeoutConfig", "Write">>],
     [key |-> <<"SESSION", "COOKIE", "EXPIRE">>, val |-> S_bogus, field |-> <<"SessionConfig", "CookieConfig", "Expire">>],
     [key |-> <<"SERVER", "PORT">>, val |-> S_foo, field |-> <<"ServerConfig", "Port">>],
     [key |-> <<"LOGGING", "ENABLE">>, val |-> S_foo, field |-> <<"LoggingConfig", "Enable">>],
     [key |-> <<"CLIENT", "ID">>, val |-> S_99, field |-> <<"ClientConfig", "ID">>],
     [key |-> <<"SERVER">>, val |-> S_foo, field |-> <<"ServerConfig">>]}

\* Other variables: a duration without a unit, and keys the doc comment
\* does not list.
OtherInputs ==
    {[key |-> <<"SESSION", "TTL", "VALID">>, val |-> S_15],
     [key |-> <<"HOME">>, val |-> S_foo],
     [key |-> <<"PATH">>, val |-> OpenablePath],
     [key |-> <<"SESSION", "COOKIE", "SECURE">>, val |-> S_false],
     [key |-> <<"SESSION", "COOKIE", "DECODEDSECRET">>, val |-> S_foo],
     [key |-> <<"METRICSCONFIG", "STATSD", "HOST">>, val |-> S_foo],
     [key |-> <<"UPSTREAM", "CONFIG">>, val |-> OpenablePath],
     [key |-> <<"UPSTREAM", "DEFAULTCONFIG", "TIMEOUT">>, val |-> S_60s],
     [key |-> <<"UPSTREAM", "DEFAULTCONFIG", "GROUPS">>, val |-> S_a_b]}

EnvInputs ==
    {[key |-> r.key, val |-> r.val] : r \in Documented \cup FailingInputs} \cup OtherInputs

\* The fields a caller may set on a literal, with the values it may give.
FieldInputs ==
    <<[path |-> <<"ServerConfig", "Port">>,
       vals |-> {0, DefaultPort}],
      [path |-> <<"ServerConfig", "TimeoutConfig", "Write">>,
       vals |-> {Seconds(0), Seconds(60)}],
      [path |-> <<"ProviderConfig", "ProviderType">>,
       vals |-> {<<>>, S_sso}],
      [path |-> <<"ProviderConfig", "ProviderSlug">>,
       vals |-> {<<>>, S_google}],
      [path |-> <<"ProviderConfig", "Scope">>,
       vals |-> {<<>>, S_test}],
      [path |-> <<"ProviderConfig", "ProviderURLExternal">>,
       vals |-> {u.url : u \in UrlInputs}],
      [path |-> <<"ProviderConfig", "ProviderURLInternal">>,
       vals |-> {u.url : u \in UrlInputs}],
      [path |-> <<"ProviderConfig", "ProviderSkipAuthPreflight">>,
       vals |-> {<<>>, S_foo}],
      [path |-> <<"ClientConfig", "ID">>,
       vals |-> {<<>>, S_foo_id}],
      [path |-> <<"ClientConfig", "Secret">>,
       vals |-> {<<>>, S_bar_secret}],
      [path |-> <<"SessionConfig", "CookieConfig", "Name">>,
       vals |-> {n.name : n \in NameInputs}],
      [path |-> <<"SessionConfig", "CookieConfig", "Secret">>,
       vals |-> {x.secret : x \in SecretInputs}],
      [path |-> <<"SessionConfig", "CookieConfig", "Expire">>,
       vals |-> {Seconds(0), Hours(168)}],
      [path |-> <<"SessionConfig", "CookieConfig", "Domain">>,
       vals |-> {<<>>, S_foo}],
      [path |-> <<"SessionConfig", "CookieConfig", "Secure">>,
       vals |-> BOOLEAN],
      [path |-> <<"SessionConfig", "CookieConfig", "HTTPOnly">>,
       vals |-> BOOLEAN],
      [path |-> <<"SessionConfig", "TTLConfig", "Lifetime">>,
       vals |-> {Seconds(0), Hours(720)}],
      [path |-> <<"UpstreamConfigs", "DefaultConfig", "EmailConfig", "AllowedDomains">>,
       vals |-> {Nil, Slice(<<<<"a">>, <<"b">>>>)}],
      [path |-> <<"UpstreamConfigs", "DefaultConfig", "AllowedGroups">>,
       vals |-> {Nil, Slice(<<<<"a">>, <<"b">>>>)}],
      [path |-> <<"UpstreamConfigs", "DefaultConfig", "Timeout">>,
       vals |-> {Seconds(0), Seconds(10)}],
      [path |-> <<"UpstreamConfigs", "ConfigsFile">>,
       vals |-> {<<>>, OpenablePath, MissingPath}],
      [path |-> <<"UpstreamConfigs", "Cluster">>,
       vals |-> {<<>>, S_foo_cluster}],
      [path |-> <<"UpstreamConfigs", "Scheme">>,
       vals |-> {<<>>, S_https}],
      [path |-> <<"MetricsConfig", "StatsdConfig", "Port">>,
       vals |-> {0, DefaultStatsdPort}],
      [path |-> <<"MetricsConfig", "StatsdConfig", "Host">>,
       vals |-> {<<>>, S_localhost}],
      [path |-> <<"LoggingConfig", "Enable">>,
       vals |-> BOOLEAN],
      [path |-> <<"LoggingConfig", "Level">>,
       vals |-> {<<>>, S_INFO}],
      [path |-> <<"RequestSignerConfig", "Key">>,
       vals |-> {<<>>, S_foo}]>>

MaxEnv == 2
MaxEdits == 2

RECURSIVE Get(_, _)
\* The value of the field at a path of Go field names.
Get(c, path) == IF path = <<>> THEN c ELSE Get(c[Head(path)], Tail(path))

RECURSIVE SetAt(_, _, _)
\* c with the field at a path of Go field names set to v.
SetAt(c, path, v) ==
    IF Len(path) = 1 THEN [c EXCEPT ![path[1]] = v]
    ELSE [c EXCEPT ![path[1]] = SetAt(@, Tail(path), v)]

\* Two keys whose lower-cased segments are equal or extend one another name
\* the same place of the tree; the model keeps such keys apart.
KeyConflict(a, b) ==
    \A i \in 1..(IF Len(a) < Len(b) THEN Len(a) ELSE Len(b)) : ToLower(a[i]) = ToLower(b[i])

\* The orders in which os.Environ() may list a set of variables.
Orders(e) ==
    {o \in [1..Cardinality(e) -> e] : \A i, j \in 1..Cardinality(e) : o[i] = o[j] => i = j}

Validators == {"Configuration", "CookieConfig"}

-----------------------------------------------------------------------------
(* The state machine: a process sets its environment and calls LoadConfig, *)
(* or builds a Configuration literal as the tests do; then it validates.   *)

NotRun == [isNil |-> TRUE, errors |-> {}]

Init ==
    /\ env = {}
    /\ cfg = ZeroConfiguration
    /\ loadErr = NotRun
    /\ err = NoError
    /\ target = "none"
    /\ before = ZeroConfiguration
    /\ pc = "start"
    /\ edits = <<>>

\* os.Setenv(key, val) before the configuration is loaded.
Setenv(e) ==
    /\ pc = "start"
    /\ Cardinality(env) < MaxEnv
    /\ \A x \in env : ~KeyConflict(x.key, e.key)
    /\ env' = env \cup {e}
    /\ UNCHANGED <<cfg, loadErr, err, target, before, pc, edits>>

\* The caller's state after a LoadConfig that returned r = [c, err].
Loaded(r) ==
    /\ cfg' = r.c
    /\ loadErr' = r.err
    /\ pc' = "loaded"
    /\ UNCHANGED <<env, err, target, before, edits>>

\* c, err := LoadConfig(), with os.Environ() in any order.
Load ==
    /\ pc = "start"
    /\ \E o \in Orders(env) : Loaded(LoadConfig(o))

\* A Configuration written as a literal, or taken from DefaultProxyConfig().
NewConfiguration(c) ==
    /\ pc = "start"
    /\ env = {}
    /\ cfg' = c
    /\ pc' = "built"
    /\ UNCHANGED <<env, loadErr, err, target, before, edits>>

\* One more field of the literal set by the caller (fields in list order).
SetField(i, v) ==
    /\ pc = "built"
    /\ Len(edits) < MaxEdits
    /\ IF edits = <<>> THEN TRUE ELSE i > edits[Len(edits)]
    /\ Get(cfg, FieldInputs[i].path) # v
    /\ cfg' = SetAt(cfg, FieldInputs[i].path, v)
    /\ edits' = Append(edits, i)
    /\ UNCHANGED <<env, loadErr, err, target, before, pc>>

\* The caller's state after a Validate that returned run = [err, recv].
Validated(t, run) ==
    /\ err' = run.err
    /\ cfg' = IF t = "Configuration" THEN ValueReceiver(cfg, run.recv)
              ELSE [cfg EXCEPT !.SessionConfig.CookieConfig = ValueReceiver(@, run.recv)]
    /\ before' = cfg
    /\ target' = t
    /\ pc' = "validated"
    /\ UNCHANGED <<env, loadErr, edits>>

\* err := cfg.Validate(), or err := cfg.SessionConfig.CookieConfig.Validate().
\* The method runs on a copy of the value it is called on.
Validate(t) ==
    /\ pc \in {"loaded", "built", "validated"}
    /\ Validated(t, IF t = "Configuration" THEN ConfigurationRun(cfg)
                    ELSE CookieConfigRun(cfg.SessionConfig.CookieConfig))

Next ==
    \/ \E e \in EnvInputs : Setenv(e)
    \/ Load
    \/ \E c \in Literals : NewConfiguration(c)
    \/ \E i \in 1..Len(FieldInputs) : \E v \in FieldInputs[i].vals : SetField(i, v)
    \/ \E t \in Validators : Validate(t)

Spec == Init /\ [][Next]_vars

-----------------------------------------------------------------------------
(* Properties of Configuration.Validate.                                    *)

\* The sections in the order the documentation gives, and each section's
\* own Validate applied to the configuration c.
SectionNames ==
    <<"server", "provider", "session", "client", "upstream", "metrics", "logging",
      "request-signer">>

SectionError(c, i) ==
    CASE i = 1 -> ServerConfigValidate(c.ServerConfig)
      [] i = 2 -> ProviderConfigValidate(c.ProviderConfig)
      [] i = 3 -> SessionConfigValidate(c.SessionConfig)
      [] i = 4 -> ClientConfigValidate(c.ClientConfig)
      [] i = 5 -> UpstreamConfigsValidate(c.UpstreamConfigs)
      [] i = 6 -> MetricsConfigValidate(c.MetricsConfig)
      [] i = 7 -> LoggingConfigValidate(c.LoggingConfig)
      [] i = 8 -> RequestSignerConfigValidate(c.RequestSignerConfig)

FailingSections(c) == {i \in 1..Len(SectionNames) : ~SectionError(c, i).isNil}

\* The least of a non-empty set of sections.
First(failing) == CHOOSE i \in failing : \A j \in failing : i <= j

Earliest(c) == First(FailingSections(c))

SectionPrefix(i) == "invalid " \o SectionNames[i] \o " config: "

\* A state in which Configuration.Validate has just returned err for the
\* configuration before.
ConfigurationValidated == pc = "validated" /\ target = "Configuration"

\* C1: Configuration.Validate succeeds when no section fails, and otherwise
\* returns, under one of the section prefixes, the message of the earliest
\* failing section in the order server, provider, session, client,
\* upstream, metrics, logging, request-signer; a configuration whose server
\* port is 0 yields exactly "invalid server config: no server.port
\* configured".
C1_FirstFailingSection ==
    ConfigurationValidated =>
        LET failing == FailingSections(before)
        IN  /\ failing = {} => err.isNil
            /\ failing # {} =>
                  /\ ~err.isNil
                  /\ \E i \in 1..Len(SectionNames) :
                        err.msg = SectionPrefix(i) \o SectionError(before, First(failing)).msg
            /\ before.ServerConfig.Port = 0 =>
                  err.msg = "invalid server config: no server.port configured"

\* C1 witness: a configuration with port 0 whose provider, session, client,
\* upstream and metrics sections fail too has been validated, and the
\* server error was returned.
C1_Witness ==
    /\ ConfigurationValidated
    /\ before.ServerConfig.Port = 0
    /\ {2, 3, 4, 5, 6} \subseteq FailingSections(before)
    /\ err.msg = "invalid server config: no server.port configured"

\* C2: whenever Configuration.Validate fails, the error is "invalid <section>
\* config: <message>", <section> being the section whose validator failed
\* and <message> that validator's own message.
C2_PrefixNamesFailingSection ==
    (ConfigurationValidated /\ ~err.isNil) =>
        err.msg = SectionPrefix(Earliest(before))
                    \o SectionError(before, Earliest(before)).msg

\* C2 witness: a configuration whose only failure is an empty client id has
\* been validated, and the error names the session section.
C2_Witness ==
    /\ ConfigurationValidated
    /\ FailingSections(before) = {4}
    /\ before.ClientConfig.ID = <<>>
    /\ err.msg = "invalid session config: no client.id configured"

\* What the inputs are by construction, read off the input tables.
UrlGood(u) == \E r \in UrlInputs : r.url = u /\ r.class = "good"
SecretGood(x) == \E r \in SecretInputs : r.secret = x /\ r.class = "bytes" /\ r.n \in {32, 64}
NameGood(n) == \E r \in NameInputs : r.name = n /\ r.token
FileGood(f) == f = <<>> \/ f = OpenablePath

\* The section invariants the documentation lists.
SectionInvariants(c) ==
    /\ c.ServerConfig.Port # 0
    /\ UrlGood(c.ProviderConfig.ProviderURLExternal)
    /\ UrlGood(c.ProviderConfig.ProviderURLInternal)
    /\ SecretGood(c.SessionConfig.CookieConfig.Secret)
    /\ NameGood(c.SessionConfig.CookieConfig.Name)
    /\ c.ClientConfig.ID # <<>>
    /\ c.ClientConfig.Secret # <<>>
    /\ c.UpstreamConfigs.Cluster # <<>>
    /\ FileGood(c.UpstreamConfigs.ConfigsFile)
    /\ c.MetricsConfig.StatsdConfig.Host # <<>>
    /\ c.MetricsConfig.StatsdConfig.Port # 0

\* C3 as stated: Configuration.Validate succeeds exactly when the listed
\* section invariants hold, whatever the provider type and slug are.
C3_SuccessIffListedInvariants ==
    ConfigurationValidated => (err.isNil <=> SectionInvariants(before))

\* C3, amended: Configuration.Validate succeeds exactly when the listed
\* section invariants hold and the provider type and the provider slug are
\* non-empty; no other field affects the outcome.
C3_SuccessIffInvariantsAndProvider ==
    ConfigurationValidated =>
        (err.isNil <=> /\ SectionInvariants(before)
                       /\ before.ProviderConfig.ProviderType # <<>>
                       /\ before.ProviderConfig.ProviderSlug # <<>>)

\* C3 witness: the passing configuration with its scope and its lifetime
\* cleared has been validated, with success.
C3_Witness ==
    /\ ConfigurationValidated
    /\ err.isNil
    /\ before.ProviderConfig.Scope = <<>>
    /\ before.SessionConfig.TTLConfig.Lifetime = Seconds(0)

\* A state in which CookieConfig.Validate has just returned err for the
\* cookie configuration of before.
CookieValidated == pc = "validated" /\ target = "CookieConfig"

InvalidBase64Message(n) ==
    "invalid cookie.secret configured; expected base64-encoded bytes, as from 'openssl rand 32 -base64': "
        \o "\"illegal base64 data at input byte " \o ToString(n) \o "\""

DecodedLengthMessage(n) ==
    "Invalid value for cookie.secret; must decode to 32 or 64 bytes, but decoded to "
        \o ToString(n) \o " bytes"

\* C4: CookieConfig.Validate fails an empty secret with "no cookie.secret
\* configured", a non-empty secret that is not base64 with the
\* invalid-base64 message, and a secret decoding to a length other than 32
\* or 64 with a message reporting the decoded byte count; a secret decoding
\* to 32 or 64 bytes gives none of the three: the result is then success
\* or the cookie-name error.
C4_SecretErrors ==
    CookieValidated =>
        \A r \in SecretInputs :
            r.secret = before.SessionConfig.CookieConfig.Secret =>
                CASE r.class = "empty" -> err.msg = "no cookie.secret configured"
                  [] r.class = "corrupt" -> err.msg = InvalidBase64Message(r.n)
                  [] r.class = "bytes" /\ r.n \notin {32, 64} ->
                        err.msg = DecodedLengthMessage(r.n)
                  [] OTHER ->
                        \/ err.isNil
                        \/ err.msg = "invalid cc.name: "
                                        \o Quote(before.SessionConfig.CookieConfig.Name)

\* C4 witness: a secret decoding to 16 bytes has been validated, and the
\* error reports 16 bytes.
C4_Witness ==
    /\ CookieValidated
    /\ before.SessionConfig.CookieConfig.Secret = Quanta(5) \o <<"A", "A", "=", "=">>
    /\ err.msg = DecodedLengthMessage(16)

\* C5: Configuration.Validate applied to the unmodified value of
\* DefaultProxyConfig() returns an error.
C5_DefaultsDoNotValidate ==
    (ConfigurationValidated /\ before = DefaultProxyConfig) => ~err.isNil

\* C5 witness: the defaults have been validated as they are, and the empty
\* external provider URL was reported.
C5_Witness ==
    /\ ConfigurationValidated
    /\ before = DefaultProxyConfig
    /\ edits = <<>>
    /\ err.msg = "invalid provider config: invalid provider.url_external: \"\""

-----------------------------------------------------------------------------
(* Properties of LoadConfig.                                                *)

EnvKeys == {e.key : e \in env}
DocumentedKeys == {r.key : r \in Documented}

\* C6: for every key of the documented list that is set to its well-formed
\* value, the Configuration LoadConfig returns holds the coerced value in
\* the field the key is documented to set.
C6_DocumentedKeysApplied ==
    pc = "loaded" =>
        \A r \in Documented :
            [key |-> r.key, val |-> r.val] \in env => Get(cfg, r.field) = r.want

\* C6 witness: METRICS_STATSD_HOST=foo alone was set and LoadConfig returned
\* without error, the statsd host still being "localhost".
C6_Witness ==
    /\ pc = "loaded"
    /\ env = {[key |-> <<"METRICS", "STATSD", "HOST">>, val |-> S_foo]}
    /\ loadErr.isNil
    /\ cfg.MetricsConfig.StatsdConfig.Host = S_localhost

\* C7 as stated: when no key of the documented list is set, LoadConfig
\* succeeds and returns DefaultProxyConfig().
C7_NoDocumentedKeyGivesDefaults ==
    (pc = "loaded" /\ EnvKeys \cap DocumentedKeys = {}) =>
        (loadErr.isNil /\ cfg = DefaultProxyConfig)

RECURSIVE Reaches(_, _)
\* A key whose lower-cased segments lead, through the names the decoder
\* looks fields up by (compared under case folding), to an exported field
\* of the type T or to something below one.
Reaches(key, T) ==
    \/ key = <<>>
    \/ T \notin StructTypes
    \/ \E i \in 1..Len(Fields(T)) :
          /\ Fields(T)[i].exported
          /\ EqualFold(ToLower(Head(key)), FieldName(Fields(T)[i]))
          /\ Reaches(Tail(key), Fields(T)[i].type)

\* C7, amended: when no variable's key leads to an exported field of
\* Configuration, LoadConfig succeeds and returns DefaultProxyConfig().
C7_NoReachingKeyGivesDefaults ==
    (pc = "loaded" /\ \A e \in env : ~Reaches(e.key, "Configuration")) =>
        (loadErr.isNil /\ cfg = DefaultProxyConfig)

\* C7 witness: HOME and METRICS_STATSD_HOST were set, neither leading to a
\* field, and LoadConfig returned the defaults.
C7_Witness ==
    /\ pc = "loaded"
    /\ EnvKeys = {<<"HOME">>, <<"METRICS", "STATSD", "HOST">>}
    /\ loadErr.isNil
    /\ cfg = DefaultProxyConfig

RECURSIVE ResetFields(_, _)
\* c with the fields at the given paths put back to their defaults.
ResetFields(c, paths) ==
    IF paths = {} THEN c
    ELSE LET p == CHOOSE q \in paths : TRUE
         IN  ResetFields(SetAt(c, p, Get(DefaultProxyConfig, p)), paths \ {p})

\* The fields the documented keys that are set name.
NamedFields == {r.field : r \in {x \in Documented : x.key \in EnvKeys}}

TimeoutOverrides ==
    {[key |-> <<"SERVER", "TIMEOUT", "WRITE">>, val |-> S_60s],
     [key |-> <<"SERVER", "TIMEOUT", "READ">>, val |-> S_60s]}

\* C8: when LoadConfig runs with a subset of the documented keys set, every
\* field that no set key names keeps its default, and every order of the
\* variables gives the same result; with SERVER_TIMEOUT_WRITE=60s and
\* SERVER_TIMEOUT_READ=60s alone, write and read are 60s, shutdown stays
\* 30s and the rest equals the defaults.
C8_OverridesTouchOnlyNamedFields ==
    (pc = "loaded" /\ EnvKeys \subseteq DocumentedKeys) =>
        /\ ResetFields(cfg, NamedFields) = DefaultProxyConfig
        /\ \A o \in Orders(env) : LoadConfig(o) = [c |-> cfg, err |-> loadErr]
        /\ env = TimeoutOverrides =>
              cfg = [DefaultProxyConfig EXCEPT
                        !.ServerConfig.TimeoutConfig.Write = Seconds(60),
                        !.ServerConfig.TimeoutConfig.Read = Seconds(60)]

\* C8 witness: the two timeout overrides were loaded; write and read are
\* 60s and shutdown is 30s.
C8_Witness ==
    /\ pc = "loaded"
    /\ env = TimeoutOverrides
    /\ cfg.ServerConfig.TimeoutConfig =
          [Write |-> Seconds(60), Read |-> Seconds(60), Shutdown |-> Seconds(30)]
    /\ cfg.ServerConfig.Port = DefaultPort

Malformed == {[key |-> r.key, val |-> r.val] : r \in FailingInputs}

SomeOrder(e) == CHOOSE o \in Orders(e) : TRUE

C10_ValidateIsReadOnly ==
    pc = "validated" =>
        /\ cfg = before
        /\ cfg.SessionConfig.CookieConfig.decodedSecret = Nil
        /\ err = IF target = "Configuration" THEN ConfigurationValidate(cfg)
                 ELSE CookieConfigValidate(cfg.SessionConfig.CookieConfig)

\* C10 witness: the passing configuration has been validated with success,
\* so line 264 ran on the copy, and the caller's decodedSecret is unset.
C10_Witness ==
    /\ ConfigurationValidated
    /\ err.isNil
    /\ before = PassingConfiguration
    /\ cfg.SessionConfig.CookieConfig.decodedSecret = Nil

=============================================================================
